---- MODULE Spec2Model ----
(***************************************************************************)
(* A model of the CHIP-8 interpreter: the instruction decoder              *)
(* (instructions.rs), the execution engine Machine::step (machine.rs),     *)
(* the framebuffer (screen.rs), the key latch (keyboard.rs) and the        *)
(* key-event handlers of the driver loop (main.rs).                        *)
(*                                                                         *)
(* A panic of the Rust program is the terminal value of the variable       *)
(* panic: once it is not "none" no step is taken any more.                 *)
(***************************************************************************)
EXTENDS Integers, Sequences, FiniteSets, TLC

(***************************************************************************)
(* Program constants.                                                      *)
(***************************************************************************)
PROGRAM_START_AT == 512
TIMER_RATE == 16666
RamSize == 4098
StackSize == 16
NumRegisters == 16
NumKeys == 16
ScreenWidth == 64
ScreenHeight == 32

(***************************************************************************)
(* Bounds of the model.                                                    *)
(***************************************************************************)
MaxTime == 40000
HistDepth == 2
MaxCalls == 17
MaxAdds == 245

VARIABLES
  ram,              \* Machine.ram: [u8; 4098], as the function from the
                    \* addresses of its nonzero bytes to these bytes
  registers,        \* Machine.registers: [u8; 16]
  register_i,       \* Machine.register_i: u16
  register_delay,   \* Machine.register_delay: u8
  register_sound,   \* Machine.register_sound: u8
  last_tick,        \* Machine.last_tick, in microseconds of the model clock
  pc,               \* Machine.pc: usize
  sp,               \* Machine.sp: usize; -1 stands for usize::MAX
  stack,            \* Machine.stack: [u16; 16]
  pixels,           \* Screen.pixels: [[u8; 64]; 32], as the set of the <<x, y>>
                    \* whose entry pixels[y][x] is not 0
  keys,             \* Keyboard.keys: [bool; 16], as the set of the n whose
                    \* entry keys[n] is true
  now,              \* the monotonic clock read by Instant::now(), microseconds
  panic,            \* "none", or the kind of panic that ended the program
  overflow_checks,  \* build profile: TRUE = arithmetic overflow panics (debug)
  loaded,           \* position of main: FALSE before machine.load, TRUE after
  hist,             \* history: the states before the last HistDepth steps
  tick_log,         \* history: the clock readings of the last HistDepth steps
                    \* that lowered a timer
  calls             \* history: the Calls executed and not yet returned from,
                    \* oldest first, each with its address and the sp before it

vars == <<ram, registers, register_i, register_delay, register_sound,
          last_tick, pc, sp, stack, pixels, keys, now, panic,
          overflow_checks, loaded, hist, tick_log, calls>>

(***************************************************************************)
(* Bitwise operations on unsigned integers.                                *)
(***************************************************************************)
RECURSIVE BitAnd(_, _)
BitAnd(a, b) ==
  IF a = 0 \/ b = 0 THEN 0
  ELSE (a % 2) * (b % 2) + 2 * BitAnd(a \div 2, b \div 2)

RECURSIVE BitOr(_, _)
BitOr(a, b) ==
  IF a = 0 THEN b
  ELSE IF b = 0 THEN a
  ELSE (IF (a % 2) + (b % 2) > 0 THEN 1 ELSE 0) + 2 * BitOr(a \div 2, b \div 2)

RECURSIVE BitXor(_, _)
BitXor(a, b) ==
  IF a = 0 THEN b
  ELSE IF b = 0 THEN a
  ELSE (((a % 2) + (b % 2)) % 2) + 2 * BitXor(a \div 2, b \div 2)

RECURSIVE Pow2(_)
Pow2(k) == IF k = 0 THEN 1 ELSE 2 * Pow2(k - 1)

\* a >> k on an unsigned integer
ShiftRight(a, k) == a \div Pow2(k)

(***************************************************************************)
(* instructions.rs: the decoder.                                           *)
(***************************************************************************)
u16_to_nibbles(n) ==
  << ShiftRight(n, 12), BitAnd(ShiftRight(n, 8), 15), BitAnd(ShiftRight(n, 4), 15), BitAnd(n, 15) >>

nnn(n1, n2, n3) == BitOr(BitOr(n1 * 256, n2 * 16), n3)

kk(k1, k2) == BitOr((k1 * 16) % 256, k2)

\* One decoded instruction.  Every variant carries all fields; the fields a
\* variant does not have are 0.
Ins(op, x, y, n, k, a) == [op |-> op, x |-> x, y |-> y, n |-> n, kk |-> k, nnn |-> a]

InsX(op, t)   == Ins(op, t[2], 0, 0, 0, 0)
InsXY(op, t)  == Ins(op, t[2], t[3], 0, 0, 0)
InsXKK(op, t) == Ins(op, t[2], 0, 0, kk(t[3], t[4]), 0)
InsNNN(op, t) == Ins(op, 0, 0, 0, 0, nnn(t[2], t[3], t[4]))

\* impl From<u16> for Instruction.  The arms are tried in the order of the
\* match; op "unreachable" is the arm `_ => unreachable!()`.
InstructionFrom(ins) ==
  LET t == u16_to_nibbles(ins) IN
  IF t = <<0, 0, 14, 0>> THEN Ins("Cls", 0, 0, 0, 0, 0)
  ELSE IF t = <<0, 0, 14, 14>> THEN Ins("Ret", 0, 0, 0, 0, 0)
  ELSE IF t[1] = 3 THEN InsXKK("SkipEq", t)
  ELSE IF t[1] = 4 THEN InsXKK("SkipNEq", t)
  ELSE IF t[1] = 5 /\ t[4] = 0 THEN InsXY("SkipEqV", t)
  ELSE IF t[1] = 6 THEN InsXKK("Set", t)
  ELSE IF t[1] = 7 THEN InsXKK("Add", t)
  ELSE IF t[1] = 8 /\ t[4] = 0 THEN InsXY("Load", t)
  ELSE IF t[1] = 8 /\ t[4] = 1 THEN InsXY("Or", t)
  ELSE IF t[1] = 8 /\ t[4] = 2 THEN InsXY("And", t)
  ELSE IF t[1] = 8 /\ t[4] = 3 THEN InsXY("Xor", t)
  ELSE IF t[1] = 8 /\ t[4] = 4 THEN InsXY("AddCarry", t)
  ELSE IF t[1] = 8 /\ t[4] = 5 THEN InsXY("SubCarry", t)
  ELSE IF t[1] = 8 /\ t[4] = 6 THEN InsXY("Shr", t)
  ELSE IF t[1] = 8 /\ t[4] = 7 THEN InsXY("SubN", t)
  ELSE IF t[1] = 8 /\ t[4] = 14 THEN InsXY("Shl", t)
  ELSE IF t[1] = 9 /\ t[4] = 0 THEN InsXY("Sne", t)
  ELSE IF t[1] = 10 THEN InsNNN("LoadI", t)
  ELSE IF t[1] = 11 THEN InsNNN("JmpV0", t)
  ELSE IF t[1] = 12 THEN InsXKK("Rnd", t)
  ELSE IF t[1] = 13 THEN Ins("Drw", t[2], t[3], t[4], 0, 0)
  ELSE IF t[1] = 14 /\ t[3] = 9 /\ t[4] = 14 THEN InsX("SkipPressed", t)
  ELSE IF t[1] = 14 /\ t[3] = 10 /\ t[4] = 1 THEN InsX("SkipNPressed", t)
  ELSE IF t[1] = 15 /\ t[3] = 0 /\ t[4] = 7 THEN InsX("LoadDT", t)
  ELSE IF t[1] = 15 /\ t[3] = 0 /\ t[4] = 10 THEN InsX("LoadKeyPress", t)
  ELSE IF t[1] = 15 /\ t[3] = 1 /\ t[4] = 5 THEN InsX("SetDT", t)
  ELSE IF t[1] = 15 /\ t[3] = 1 /\ t[4] = 8 THEN InsX("SetST", t)
  ELSE IF t[1] = 15 /\ t[3] = 1 /\ t[4] = 14 THEN InsX("AddI", t)
  ELSE IF t[1] = 15 /\ t[3] = 2 /\ t[4] = 9 THEN InsX("LoadSprite", t)
  ELSE IF t[1] = 15 /\ t[3] = 3 /\ t[4] = 3 THEN InsX("LoadBCD", t)
  ELSE IF t[1] = 15 /\ t[3] = 5 /\ t[4] = 5 THEN InsX("LoadAllI", t)
  ELSE IF t[1] = 15 /\ t[3] = 6 /\ t[4] = 5 THEN InsX("SetAllI", t)
  ELSE IF t[1] = 0 THEN InsNNN("Sys", t)
  ELSE IF t[1] = 1 THEN InsNNN("Jmp", t)
  ELSE IF t[1] = 2 THEN InsNNN("Call", t)
  ELSE Ins("unreachable", 0, 0, 0, 0, 0)

(***************************************************************************)
(* screen.rs and keyboard.rs.                                              *)
(***************************************************************************)
ScreenNew == {}

ScreenClear(px) == px \ ((0..(ScreenWidth - 1)) \X (0..(ScreenHeight - 1)))

ScreenSet(px, x, y, bit) == IF bit = 0 THEN px \ {<<x, y>>} ELSE px \cup {<<x, y>>}

ScreenGet(px, x, y) == IF <<x, y>> \notin px THEN 0 ELSE 1

KeyboardNew == {}

\* Keyboard::is_pressed, for n < 16
is_pressed(kb, n) == n \in kb

\* Keyboard::get_pressed: the lowest pressed key, or -1 for None
get_pressed(kb) ==
  IF \E i \in 0..(NumKeys - 1) : is_pressed(kb, i)
  THEN CHOOSE i \in 0..(NumKeys - 1) :
         is_pressed(kb, i) /\ \A j \in 0..(i - 1) : ~is_pressed(kb, j)
  ELSE -1

\* Keyboard::press and Keyboard::release
press(kb, n) == kb \cup {n}

release(kb, n) == kb \ {n}

\* main.rs: the keys of the host keyboard and the latch entries they drive
HostKeys == {"Up", "Down", "W", "A", "S", "D", "Space"}

KeyMap(key) ==
  CASE key = "Up"    -> {1, 2}
    [] key = "Down"  -> {4, 8}
    [] key = "W"     -> {11}
    [] key = "A"     -> {12}
    [] key = "S"     -> {13}
    [] key = "D"     -> {14}
    [] key = "Space" -> {15}

(***************************************************************************)
(* machine.rs: the execution engine.  The operators below work on a record *)
(* m holding the fields of the Machine and the pixels of the Screen that   *)
(* step borrows; m.panic records a panic, after which nothing is executed. *)
(***************************************************************************)
NUMBERS ==
  << 240, 144, 144, 144, 240,   32,  96,  32,  32, 112,
     240,  16, 240, 128, 240,  240,  16, 240,  16, 240,
     144, 144, 240,  16,  16,  240, 128, 240,  16, 240,
     240, 128, 240, 144, 240,  240,  16,  32,  64,  64,
     240, 144, 240, 144, 240,  240, 144, 240,  16, 240,
     240, 144, 240, 144, 144,  224, 144, 224, 144, 224,
     240, 128, 128, 128, 240,  224, 144, 144, 144, 224,
     240, 128, 240, 128, 240,  240, 128, 240, 128, 128 >>

Panic(m, kind) == [m EXCEPT !.panic = kind]

\* the byte ram[addr], for addr < RamSize
RamGet(r, addr) == IF addr \in DOMAIN r THEN r[addr] ELSE 0

\* the array ram after ram[addr] = val, for addr < RamSize
RamPut(r, addr, val) ==
  IF val # 0 THEN (addr :> val) @@ r
  ELSE [a \in DOMAIN r \ {addr} |-> r[a]]

\* mutant: the address wraps at the end of the array
RamWrite_Wrapping(m, addr, val) ==
  IF m.panic # "none" THEN m
  ELSE [m EXCEPT !.ram = RamPut(@, addr % RamSize, val)]

\* self.ram[addr] = val, with the bounds check of the array
RamWrite(m, addr, val) ==
  IF m.panic # "none" THEN m
  ELSE IF addr >= RamSize THEN Panic(m, "index")
  ELSE [m EXCEPT !.ram = RamPut(@, addr, val)]

ExecSys(m, i) == [m EXCEPT !.pc = i.nnn]

\* mutant: the screen is left as it is
ExecCls_NoClear(m) == m

ExecCls(m) == [m EXCEPT !.pixels = ScreenClear(@)]

ExecRet(m, oc) ==
  IF m.sp < 0 \/ m.sp >= StackSize THEN Panic(m, "index")
  ELSE IF m.sp = 0
       THEN IF oc THEN Panic([m EXCEPT !.pc = m.stack[0]], "overflow")
            ELSE [m EXCEPT !.pc = m.stack[0], !.sp = -1]
       ELSE [m EXCEPT !.pc = m.stack[m.sp], !.sp = m.sp - 1]

ExecJmp(m, i) == [m EXCEPT !.pc = i.nnn]

ExecCall(m, i, oc) ==
  IF m.sp = -1 /\ oc THEN Panic(m, "overflow")
  ELSE LET sp1 == m.sp + 1 IN
       IF sp1 >= StackSize THEN Panic([m EXCEPT !.sp = sp1], "index")
       ELSE [m EXCEPT !.sp = sp1, !.stack[sp1] = m.pc % 65536, !.pc = i.nnn]

ExecSkipEq(m, i) ==
  IF m.registers[i.x] = i.kk THEN [m EXCEPT !.pc = @ + 2] ELSE m

ExecSkipNEq(m, i) ==
  IF m.registers[i.x] # i.kk THEN [m EXCEPT !.pc = @ + 2] ELSE m

ExecSkipEqV(m, i) ==
  IF m.registers[i.x] = m.registers[i.y] THEN [m EXCEPT !.pc = @ + 2] ELSE m

ExecSet(m, i) == [m EXCEPT !.registers[i.x] = i.kk]

\* mutant: the sum saturates at 255
ExecAdd_Saturating(m, i) ==
  [m EXCEPT !.registers[i.x] = IF @ + i.kk > 255 THEN 255 ELSE @ + i.kk]

ExecAdd(m, i) == [m EXCEPT !.registers[i.x] = (@ + i.kk) % 256]

ExecLoad(m, i) == [m EXCEPT !.registers[i.x] = m.registers[i.y]]

ExecOr(m, i) == [m EXCEPT !.registers[i.x] = BitOr(@, m.registers[i.y])]

ExecAnd(m, i) == [m EXCEPT !.registers[i.x] = BitAnd(@, m.registers[i.y])]

ExecXor(m, i) == [m EXCEPT !.registers[i.x] = BitXor(@, m.registers[i.y])]

\* mutant: the carry test is >= 0xff
ExecAddCarry_Ge(m, i) ==
  LET extended_x == m.registers[i.x] + m.registers[i.y]
      r1 == [m.registers EXCEPT ![15] = IF extended_x >= 255 THEN 1 ELSE 0]
  IN [m EXCEPT !.registers = [r1 EXCEPT ![i.x] = extended_x % 256]]

ExecAddCarry(m, i) ==
  LET extended_x == m.registers[i.x] + m.registers[i.y]
      r1 == [m.registers EXCEPT ![15] = IF extended_x > 255 THEN 1 ELSE 0]
  IN [m EXCEPT !.registers = [r1 EXCEPT ![i.x] = extended_x % 256]]

\* The flag is written first; the subtraction then reads the registers again.
ExecSubCarry(m, i) ==
  LET r1 == [m.registers EXCEPT
               ![15] = IF m.registers[i.x] > m.registers[i.y] THEN 1 ELSE 0]
  IN [m EXCEPT !.registers = [r1 EXCEPT ![i.x] = (r1[i.x] - r1[i.y]) % 256]]

\* mutant: the flag is taken after the division
ExecShr_FlagAfter(m, i) ==
  LET r1 == [m.registers EXCEPT ![i.x] = m.registers[i.x] \div 2]
  IN [m EXCEPT !.registers = [r1 EXCEPT ![15] = BitAnd(r1[i.x], 1)]]

ExecShr(m, i) ==
  LET r1 == [m.registers EXCEPT ![15] = BitAnd(m.registers[i.x], 1)]
  IN [m EXCEPT !.registers = [r1 EXCEPT ![i.x] = r1[i.x] \div 2]]

ExecSubN(m, i) ==
  LET r1 == [m.registers EXCEPT
               ![15] = IF m.registers[i.y] > m.registers[i.x] THEN 1 ELSE 0]
  IN [m EXCEPT !.registers = [r1 EXCEPT ![i.x] = (r1[i.y] - r1[i.x]) % 256]]

ExecShl(m, i) ==
  LET r1 == [m.registers EXCEPT
               ![15] = IF BitAnd(ShiftRight(m.registers[i.x], 15), 1) = 1
                       THEN 1 ELSE 0]
  IN [m EXCEPT !.registers = [r1 EXCEPT ![i.x] = (r1[i.x] * 2) % 256]]

ExecSne(m, i) ==
  IF m.registers[i.x] # m.registers[i.y] THEN [m EXCEPT !.pc = @ + 2] ELSE m

ExecLoadI(m, i) == [m EXCEPT !.register_i = i.nnn]

ExecJmpV0(m, i) == [m EXCEPT !.pc = m.registers[0] + i.nnn]

ExecRnd(m, i, rnd) == [m EXCEPT !.registers[i.x] = BitAnd(rnd, i.kk)]

\* mutant: the collision flag is assigned, not or-ed
RECURSIVE DrwBits_Assign(_, _, _, _, _)
DrwBits_Assign(m, byte, py, x, bit) ==
  LET px == (m.registers[x] + bit) % ScreenWidth
      pixel == BitAnd(ShiftRight(byte, 7 - bit), 1)
      old_pixel == ScreenGet(m.pixels, px, py)
      m1 == [m EXCEPT !.registers[15] = BitAnd(pixel, old_pixel),
                      !.pixels = ScreenSet(@, px, py, BitXor(old_pixel, pixel))]
  IN IF bit < 7
     THEN DrwBits_Assign(m1, byte, py, x, bit + 1)
     ELSE m1

\* The body of `for bit in 0..8`, from column bit (< 8) on, in row py.
RECURSIVE DrwBits(_, _, _, _, _)
DrwBits(m, byte, py, x, bit) ==
  LET px == (m.registers[x] + bit) % ScreenWidth
      pixel == BitAnd(ShiftRight(byte, 7 - bit), 1)
      old_pixel == ScreenGet(m.pixels, px, py)
      m1 == [m EXCEPT !.registers[15] = BitOr(@, BitAnd(pixel, old_pixel)),
                      !.pixels = ScreenSet(@, px, py, BitXor(old_pixel, pixel))]
  IN IF bit < 7
     THEN DrwBits(m1, byte, py, x, bit + 1)
     ELSE m1

\* The body of `for (i, byte) in sprite.iter().enumerate()`, from row r (< n)
\* on.
RECURSIVE DrwRows(_, _, _, _, _)
DrwRows(m, x, y, n, r) ==
  LET byte == RamGet(m.ram, m.register_i + r)
      py == (m.registers[y] + r) % ScreenHeight
      m1 == DrwBits(m, byte, py, x, 0)
  IN IF m1.panic = "none" /\ r + 1 < n
     THEN DrwRows(m1, x, y, n, r + 1)
     ELSE m1

\* mutant: register 15 is not cleared before the rows are drawn
ExecDrw_NoClear(m, i) ==
  IF m.register_i + i.n > RamSize THEN Panic(m, "index")
  ELSE IF i.n = 0 THEN m
  ELSE DrwRows(m, i.x, i.y, i.n, 0)

ExecDrw(m, i) ==
  LET m1 == [m EXCEPT !.registers[15] = 0] IN
  IF m.register_i + i.n > RamSize THEN Panic(m1, "index")
  ELSE IF i.n = 0 THEN m1
  ELSE DrwRows(m1, i.x, i.y, i.n, 0)

ExecSkipPressed(m, i, kb) ==
  IF m.registers[i.x] >= NumKeys THEN Panic(m, "index")
  ELSE IF is_pressed(kb, m.registers[i.x]) THEN [m EXCEPT !.pc = @ + 2] ELSE m

ExecSkipNPressed(m, i, kb) ==
  IF m.registers[i.x] >= NumKeys THEN Panic(m, "index")
  ELSE IF ~is_pressed(kb, m.registers[i.x]) THEN [m EXCEPT !.pc = @ + 2] ELSE m

ExecLoadDT(m, i) == [m EXCEPT !.registers[i.x] = m.register_delay]

\* mutant: no rollback of pc when no key is pressed
ExecLoadKeyPress_NoRollback(m, i, kb) ==
  IF get_pressed(kb) # -1 THEN [m EXCEPT !.registers[i.x] = get_pressed(kb)]
  ELSE m

ExecLoadKeyPress(m, i, kb) ==
  IF get_pressed(kb) # -1 THEN [m EXCEPT !.registers[i.x] = get_pressed(kb)]
  ELSE [m EXCEPT !.pc = @ - 2]

ExecSetDT(m, i) == [m EXCEPT !.register_delay = m.registers[i.x]]

ExecSetST(m, i) == [m EXCEPT !.register_sound = m.registers[i.x]]

ExecAddI(m, i, oc) ==
  LET sum == m.register_i + m.registers[i.x] IN
  IF sum > 65535 /\ oc THEN Panic(m, "overflow")
  ELSE [m EXCEPT !.register_i = sum % 65536]

\* mutant: no range test, the product is truncated to u8
ExecLoadSprite_NoCheck(m, i) ==
  [m EXCEPT !.register_i = (m.registers[i.x] * 5) % 256]

ExecLoadSprite(m, i) ==
  IF m.registers[i.x] > 15 THEN Panic(m, "explicit")
  ELSE [m EXCEPT !.register_i = m.registers[i.x] * 5]

\* mutant: the tens digit is taken of the whole value
ExecLoadBCD_TensOfAll(m, i) ==
  LET x0 == m.registers[i.x]
      x1 == x0 % 100
      x2 == x1 % 10
  IN RamWrite(RamWrite(RamWrite(m, m.register_i, x0 \div 100),
                       m.register_i + 1, x0 \div 10),
              m.register_i + 2, x2)

ExecLoadBCD(m, i) ==
  LET x0 == m.registers[i.x]
      x1 == x0 % 100
      x2 == x1 % 10
  IN RamWrite(RamWrite(RamWrite(m, m.register_i, x0 \div 100),
                       m.register_i + 1, x1 \div 10),
              m.register_i + 2, x2)

RECURSIVE LoadAllIFrom(_, _, _)
LoadAllIFrom(m, x, j) ==
  IF j > x \/ m.panic # "none" THEN m
  ELSE LoadAllIFrom(RamWrite(m, m.register_i + j, m.registers[j]), x, j + 1)

ExecLoadAllI(m, i) == LoadAllIFrom(m, i.x, 0)

RECURSIVE SetAllIFrom(_, _, _)
SetAllIFrom(m, x, j) ==
  IF j > x \/ m.panic # "none" THEN m
  ELSE IF m.register_i + j >= RamSize THEN Panic(m, "index")
  ELSE SetAllIFrom([m EXCEPT !.registers[j] = RamGet(m.ram, m.register_i + j)], x, j + 1)

ExecSetAllI(m, i) == SetAllIFrom(m, i.x, 0)

\* `match ins { ... }` of Machine::step
Exec(m, i, kb, rnd, oc) ==
  CASE i.op = "Sys"          -> ExecSys(m, i)
    [] i.op = "Cls"          -> ExecCls(m)
    [] i.op = "Ret"          -> ExecRet(m, oc)
    [] i.op = "Jmp"          -> ExecJmp(m, i)
    [] i.op = "Call"         -> ExecCall(m, i, oc)
    [] i.op = "SkipEq"       -> ExecSkipEq(m, i)
    [] i.op = "SkipNEq"      -> ExecSkipNEq(m, i)
    [] i.op = "SkipEqV"      -> ExecSkipEqV(m, i)
    [] i.op = "Set"          -> ExecSet(m, i)
    [] i.op = "Add"          -> ExecAdd(m, i)
    [] i.op = "Load"         -> ExecLoad(m, i)
    [] i.op = "Or"           -> ExecOr(m, i)
    [] i.op = "And"          -> ExecAnd(m, i)
    [] i.op = "Xor"          -> ExecXor(m, i)
    [] i.op = "AddCarry"     -> ExecAddCarry(m, i)
    [] i.op = "SubCarry"     -> ExecSubCarry(m, i)
    [] i.op = "Shr"          -> ExecShr(m, i)
    [] i.op = "SubN"         -> ExecSubN(m, i)
    [] i.op = "Shl"          -> ExecShl(m, i)
    [] i.op = "Sne"          -> ExecSne(m, i)
    [] i.op = "LoadI"        -> ExecLoadI(m, i)
    [] i.op = "JmpV0"        -> ExecJmpV0(m, i)
    [] i.op = "Rnd"          -> ExecRnd(m, i, rnd)
    [] i.op = "Drw"          -> ExecDrw(m, i)
    [] i.op = "SkipPressed"  -> ExecSkipPressed(m, i, kb)
    [] i.op = "SkipNPressed" -> ExecSkipNPressed(m, i, kb)
    [] i.op = "LoadDT"       -> ExecLoadDT(m, i)
    [] i.op = "LoadKeyPress" -> ExecLoadKeyPress(m, i, kb)
    [] i.op = "SetDT"        -> ExecSetDT(m, i)
    [] i.op = "SetST"        -> ExecSetST(m, i)
    [] i.op = "AddI"         -> ExecAddI(m, i, oc)
    [] i.op = "LoadSprite"   -> ExecLoadSprite(m, i)
    [] i.op = "LoadBCD"      -> ExecLoadBCD(m, i)
    [] i.op = "LoadAllI"     -> ExecLoadAllI(m, i)
    [] i.op = "SetAllI"      -> ExecSetAllI(m, i)
    [] i.op = "unreachable"  -> Panic(m, "unreachable")

\* mutant: the timers are decremented without the test for zero
TimerTick_Wrapping(m, t) ==
  IF m.panic # "none" THEN m
  ELSE IF t - m.last_tick >= TIMER_RATE
       THEN [m EXCEPT !.register_delay = (@ - 1) % 256,
                      !.register_sound = (@ - 1) % 256,
                      !.last_tick = t]
       ELSE m

\* mutant: last_tick is not reset
TimerTick_NoReset(m, t) ==
  IF m.panic # "none" THEN m
  ELSE IF t - m.last_tick >= TIMER_RATE
       THEN [m EXCEPT !.register_delay = IF @ > 0 THEN @ - 1 ELSE @,
                      !.register_sound = IF @ > 0 THEN @ - 1 ELSE @]
       ELSE m

\* the timer block at the end of Machine::step; t is the clock reading
TimerTick(m, t) ==
  IF m.panic # "none" THEN m
  ELSE IF t - m.last_tick >= TIMER_RATE
       THEN [m EXCEPT !.register_delay = IF @ > 0 THEN @ - 1 ELSE @,
                      !.register_sound = IF @ > 0 THEN @ - 1 ELSE @,
                      !.last_tick = t]
       ELSE m

\* the instruction word fetched by step, or -1 when the fetch is out of bounds
Fetch(m) ==
  IF m.pc >= RamSize \/ m.pc + 1 >= RamSize THEN -1
  ELSE BitOr(RamGet(m.ram, m.pc) * 256, RamGet(m.ram, m.pc + 1)) % 65536

\* Machine::step as a function of the machine, the keyboard, the random byte,
\* the build profile and the clock
\* Machine::step up to the end of its match
MachineExec(m, kb, rnd, oc) ==
  IF Fetch(m) = -1 THEN Panic(m, "index")
  ELSE LET ins == InstructionFrom(Fetch(m))
           m1 == [m EXCEPT !.pc = @ + 2]
       IN Exec(m1, ins, kb, rnd, oc)

\* Machine::step as a function of the machine, the keyboard, the random byte,
\* the build profile and the clock
MachineStep(m, kb, rnd, oc, t) == TimerTick(MachineExec(m, kb, rnd, oc), t)

(***************************************************************************)
(* The state machine.                                                      *)
(***************************************************************************)
\* the Machine and the Screen as the record the step operators work on
Self ==
  [ram |-> ram, registers |-> registers, register_i |-> register_i,
   register_delay |-> register_delay, register_sound |-> register_sound,
   last_tick |-> last_tick, pc |-> pc, sp |-> sp, stack |-> stack,
   pixels |-> pixels, panic |-> panic]

\* what the history keeps of the state a step started from
Snapshot ==
  [word |-> Fetch(Self), pc |-> pc, registers |-> registers,
   register_i |-> register_i, register_delay |-> register_delay,
   register_sound |-> register_sound, last_tick |-> last_tick, now |-> now,
   sp |-> sp, pixels |-> pixels, keys |-> keys, ram |-> ram, stack |-> stack,
   calls |-> calls]

Push(h, e) == IF Len(h) < HistDepth THEN <<e>> \o h ELSE <<e>> \o SubSeq(h, 1, HistDepth - 1)

\* dst[start..start + Len(src)].copy_from_slice(src)
CopyFromSlice(dst, start, src) ==
  LET range == start..(start + Len(src) - 1)
      nonzero == {a \in range : src[a - start + 1] # 0}
  IN [a \in (DOMAIN dst \ range) \cup nonzero |->
        IF a \in range THEN src[a - start + 1] ELSE dst[a]]

\* Machine::new(), Screen::new(), Keyboard::new() in main
Init ==
  /\ ram = CopyFromSlice([a \in {} |-> 0], 0, NUMBERS)
  /\ registers = [r \in 0..(NumRegisters - 1) |-> 0]
  /\ register_i = 0
  /\ register_delay = 0
  /\ register_sound = 0
  /\ last_tick = 0
  /\ pc = PROGRAM_START_AT
  /\ sp = 0
  /\ stack = [s \in 0..(StackSize - 1) |-> 0]
  /\ pixels = ScreenNew
  /\ keys = KeyboardNew
  /\ now = 0
  /\ panic = "none"
  /\ overflow_checks \in BOOLEAN
  /\ loaded = FALSE
  /\ hist = <<>>
  /\ tick_log = <<>>
  /\ calls = <<>>

\* Machine::load(rom), called once by main before the first step
Load(rom) ==
  /\ ~loaded
  /\ panic = "none"
  /\ loaded' = TRUE
  /\ IF pc + Len(rom) > RamSize
     THEN /\ panic' = "index"
          /\ ram' = ram
     ELSE /\ panic' = panic
          /\ ram' = CopyFromSlice(ram, pc, rom)
  /\ UNCHANGED <<registers, register_i, register_delay, register_sound,
                 last_tick, pc, sp, stack, pixels, keys, now,
                 overflow_checks, hist, tick_log, calls>>

\* the bytes random() can return in this step
RandomBytes == IF InstructionFrom(Fetch(Self)).op = "Rnd" THEN 0..255 ELSE {0}

\* machine.step(&keyboard, &mut screen)
Step ==
  /\ loaded
  /\ panic = "none"
  /\ \E rnd \in IF Fetch(Self) = -1 THEN {0} ELSE RandomBytes :
       LET e == MachineExec(Self, keys, rnd, overflow_checks)
           r == MachineStep(Self, keys, rnd, overflow_checks, now)
       IN
       /\ ram' = r.ram
       /\ registers' = r.registers
       /\ register_i' = r.register_i
       /\ register_delay' = r.register_delay
       /\ register_sound' = r.register_sound
       /\ last_tick' = r.last_tick
       /\ pc' = r.pc
       /\ sp' = r.sp
       /\ stack' = r.stack
       /\ pixels' = r.pixels
       /\ panic' = r.panic
       /\ tick_log' = IF r.panic = "none"
                         /\ (r.register_delay < e.register_delay
                             \/ r.register_sound < e.register_sound)
                      THEN Push(tick_log, now)
                      ELSE tick_log
       /\ calls' = IF Fetch(Self) = -1 \/ r.panic # "none" THEN calls
                   ELSE IF InstructionFrom(Fetch(Self)).op = "Call"
                        THEN Append(calls, [site |-> pc, sp |-> sp])
                   ELSE IF InstructionFrom(Fetch(Self)).op = "Ret" /\ calls # <<>>
                        THEN SubSeq(calls, 1, Len(calls) - 1)
                   ELSE calls
  /\ hist' = Push(hist, Snapshot)
  /\ UNCHANGED <<keys, now, overflow_checks, loaded>>

\* the keyboard.press(n) calls, and the keyboard.release(n) calls, of one arm
\* of main's match
RECURSIVE PressAll(_, _)
PressAll(kb, ns) ==
  IF ns = {} THEN kb
  ELSE LET n == CHOOSE k \in ns : TRUE IN PressAll(press(kb, n), ns \ {n})

RECURSIVE ReleaseAll(_, _)
ReleaseAll(kb, ns) ==
  IF ns = {} THEN kb
  ELSE LET n == CHOOSE k \in ns : TRUE IN ReleaseAll(release(kb, n), ns \ {n})

\* main: a press event of a host key
KeyPress(key) ==
  /\ loaded
  /\ panic = "none"
  /\ keys' = PressAll(keys, KeyMap(key))
  /\ UNCHANGED <<ram, registers, register_i, register_delay, register_sound,
                 last_tick, pc, sp, stack, pixels, now, panic,
                 overflow_checks, loaded, hist, tick_log, calls>>

\* main: a release event of a host key
KeyRelease(key) ==
  /\ loaded
  /\ panic = "none"
  /\ keys' = ReleaseAll(keys, KeyMap(key))
  /\ UNCHANGED <<ram, registers, register_i, register_delay, register_sound,
                 last_tick, pc, sp, stack, pixels, now, panic,
                 overflow_checks, loaded, hist, tick_log, calls>>

\* d microseconds pass on the clock
Advance(d) ==
  /\ panic = "none"
  /\ now + d <= MaxTime
  /\ now' = now + d
  /\ UNCHANGED <<ram, registers, register_i, register_delay, register_sound,
                 last_tick, pc, sp, stack, pixels, keys, panic,
                 overflow_checks, loaded, hist, tick_log, calls>>

Delays == {TIMER_RATE \div 2, TIMER_RATE - 1, TIMER_RATE}

(***************************************************************************)
(* Program images.                                                         *)
(***************************************************************************)
Op(n1, n2, n3, n4) == << n1 * 16 + n2, n3 * 16 + n4 >>

OpKK(n1, x, k) == << n1 * 16 + x, k >>

OpNNN(n1, a) == << n1 * 16 + (a \div 256), a % 256 >>

\* the low nibble pairs the decoder looks at, and some it has no arm for
LowNibbles ==
  { <<0, 0>>, <<14, 0>>, <<14, 14>>, <<0, 1>>, <<0, 7>>, <<0, 10>>, <<1, 5>>,
    <<1, 8>>, <<1, 14>>, <<2, 9>>, <<3, 3>>, <<5, 5>>, <<6, 5>>, <<9, 14>>,
    <<10, 1>>, <<0, 6>>, <<0, 8>>, <<15, 15>> }

\* single instruction words, of every leading nibble
DecodeRoms ==
  { Op(t[1], t[2], t[3][1], t[3][2]) : t \in (0..15) \X {0, 3} \X LowNibbles }

LoadDecode == \E rom \in DecodeRoms : Load(rom)

NextDecode == LoadDecode \/ Step

SpecDecode == Init /\ [][NextDecode]_vars

\* programs that set register x and then wait for a key: 6xkk, Fx0A, 1204
KeyRoms ==
  { OpKK(6, t[1], t[2]) \o Op(15, t[1], 0, 10) \o OpNNN(1, PROGRAM_START_AT + 4) :
      t \in {0, 1, 15} \X {0, 200} }

\* the host keys whose events the key specification generates
EventKeys == {"Down", "Space"}

LoadKey == \E rom \in KeyRoms : Load(rom)

PressKey == \E key \in EventKeys : KeyPress(key)

ReleaseKey == \E key \in EventKeys : KeyRelease(key)

NextKey == LoadKey \/ Step \/ PressKey \/ ReleaseKey

SpecKey == Init /\ [][NextKey]_vars

\* programs that set both timers and then spin: 60kk, F015, 61kk, F118, 1208
TimerRoms ==
  { OpKK(6, 0, t[1]) \o Op(15, 0, 1, 5) \o OpKK(6, 1, t[2]) \o Op(15, 1, 1, 8)
      \o OpNNN(1, PROGRAM_START_AT + 8) : t \in {0, 1, 3} \X {0, 2} }

LoadTimer == \E rom \in TimerRoms : Load(rom)

Tick == \E d \in Delays : Advance(d)

NextTimer == LoadTimer \/ Step \/ Tick

SpecTimer == Init /\ [][NextTimer]_vars

\* register selectors and register values of the arithmetic programs
AluSelectors == {<<0, 1>>, <<1, 0>>, <<1, 1>>, <<15, 0>>, <<0, 15>>, <<15, 15>>}

AluValues == {0, 1, 3, 128, 255}

\* the 8xyN instructions with a flag
AluOps == {4, 5, 6, 7, 14}

\* programs that set registers x and y and execute 8xyN: 6xaa, 6ybb, 8xyN, 1206
AluRoms ==
  { OpKK(6, t[1][1], t[2]) \o OpKK(6, t[1][2], t[3]) \o Op(8, t[1][1], t[1][2], t[4])
      \o OpNNN(1, PROGRAM_START_AT + 6) :
      t \in AluSelectors \X AluValues \X AluValues \X AluOps }

LoadAlu == \E rom \in AluRoms : Load(rom)

NextAlu == LoadAlu \/ Step

SpecAlu == Init /\ [][NextAlu]_vars

\* sprite data of the drawing programs, 15 rows each
Sprites ==
  { [r \in 1..15 |-> 255],
    [r \in 1..15 |-> IF r % 2 = 1 THEN 192 ELSE 129],
    [r \in 1..15 |-> 0] }

\* register selectors, coordinates and heights of the drawing programs
DrwSelectors == {<<0, 1>>, <<1, 1>>, <<15, 0>>, <<0, 15>>}

DrwXs == {0, 60, 252}

DrwYs == {0, 31}

DrwHeights == {0, 1, 2, 15}

\* programs that draw nb rows of 0xFF at (0, 0) as a background, set registers
\* x and y and draw the same n-row sprite twice:
\*   A210, D00b, 6xaa, 6ybb, A211, Dxyn, Dxyn, 120E, then 0xFF and the sprite
DrwRoms ==
  { OpNNN(10, PROGRAM_START_AT + 16) \o Op(13, 0, 0, t[1])
      \o OpKK(6, t[2][1], t[3]) \o OpKK(6, t[2][2], t[4])
      \o OpNNN(10, PROGRAM_START_AT + 17)
      \o Op(13, t[2][1], t[2][2], t[5]) \o Op(13, t[2][1], t[2][2], t[5])
      \o OpNNN(1, PROGRAM_START_AT + 14) \o <<255>> \o t[6] :
      t \in {0, 1} \X DrwSelectors \X DrwXs \X DrwYs \X DrwHeights \X Sprites }

LoadDrw == \E rom \in DrwRoms : Load(rom)

NextDrw == LoadDrw \/ Step

SpecDrw == Init /\ [][NextDrw]_vars

\* programs that store the decimal digits of a register: 6xvv, Annn, Fx33, 1206
BcdSelectors == {0, 15}

BcdAddresses == {768, 4093}

BcdRoms ==
  { OpKK(6, t[1], t[2]) \o OpNNN(10, t[3]) \o Op(15, t[1], 3, 3)
      \o OpNNN(1, PROGRAM_START_AT + 6) :
      t \in BcdSelectors \X (0..255) \X BcdAddresses }

LoadBcd == \E rom \in BcdRoms : Load(rom)

NextBcd == LoadBcd \/ Step

SpecBcd == Init /\ [][NextBcd]_vars

\* the four-byte programs 6xkk, 7xjj
AddSelectors == {0, 1, 15}

AddValues == {0, 3, 5, 128, 255}

AddRoms ==
  { OpKK(6, t[1], t[2]) \o OpKK(7, t[1], t[3]) :
      t \in AddSelectors \X AddValues \X AddValues }

LoadAdd == \E rom \in AddRoms : Load(rom)

NextAdd == LoadAdd \/ Step

SpecAdd == Init /\ [][NextAdd]_vars

\* a program of k nested subroutines: the subroutine of level j, at
\* 0x200 + 4j, calls level j + 1 and returns; level 0 ends in a jump to
\* itself and level k is a lone return
RECURSIVE NestedCalls(_, _)
NestedCalls(j, k) ==
  IF j = k THEN Op(0, 0, 14, 14)
  ELSE OpNNN(2, PROGRAM_START_AT + 4 * (j + 1))
         \o (IF j = 0 THEN OpNNN(1, PROGRAM_START_AT + 2) ELSE Op(0, 0, 14, 14))
         \o NestedCalls(j + 1, k)

\* the nested programs of every depth, and the subroutine that calls itself
StackRoms ==
  { NestedCalls(0, k) : k \in 0..MaxCalls } \cup { OpNNN(2, PROGRAM_START_AT) }

LoadStack == \E rom \in StackRoms : Load(rom)

NextStack == LoadStack \/ Step

SpecStack == Init /\ [][NextStack]_vars

\* programs that ask for the glyph of a register's value: 6xvv, A123, Fx29, 1206
SpriteSelectors == {0, 15}

SpriteDigits == (0..20) \cup {51, 52, 255}

SpriteRoms ==
  { OpKK(6, t[1], t[2]) \o OpNNN(10, 291) \o Op(15, t[1], 2, 9)
      \o OpNNN(1, PROGRAM_START_AT + 6) : t \in SpriteSelectors \X SpriteDigits }

LoadSpriteRom == \E rom \in SpriteRoms : Load(rom)

NextSprite == LoadSpriteRom \/ Step

SpecSprite == Init /\ [][NextSprite]_vars

\* programs that move I, or pc, to the end of memory and access it:
\*   61EB, 60vv, Annn, F01E, one of the words below, 120A
EdgeValues == {0, 1, 2, 3, 255}

EdgeAddresses == {4080, 4093, 4095}

EdgeWords(a) ==
  { Op(15, 1, 3, 3), Op(15, 2, 5, 5), Op(15, 15, 5, 5), Op(15, 2, 6, 5),
    Op(15, 15, 6, 5), Op(13, 0, 0, 0), Op(13, 0, 0, 1), Op(13, 0, 0, 15),
    OpNNN(11, a) }

EdgeRoms ==
  { OpKK(6, 1, 235) \o OpKK(6, 0, t[1]) \o OpNNN(10, t[2]) \o Op(15, 0, 1, 14)
      \o w \o OpNNN(1, PROGRAM_START_AT + 10) :
      t \in EdgeValues \X EdgeAddresses, w \in UNION { EdgeWords(a) : a \in EdgeAddresses } }

LoadEdge == \E rom \in EdgeRoms : Load(rom)

NextEdge == LoadEdge \/ Step

SpecEdge == Init /\ [][NextEdge]_vars

\* one instruction word of every variant
FrameWords ==
  { Op(0, 1, 2, 3), Op(0, 0, 14, 0), Op(0, 0, 14, 14), OpNNN(1, PROGRAM_START_AT + 6),
    OpNNN(2, PROGRAM_START_AT + 6), OpKK(3, 0, 0), OpKK(4, 0, 0), Op(5, 0, 1, 0),
    OpKK(6, 1, 5), OpKK(7, 1, 5), Op(8, 0, 1, 0), Op(8, 0, 1, 1), Op(8, 0, 1, 2),
    Op(8, 0, 1, 3), Op(8, 0, 1, 4), Op(8, 0, 1, 5), Op(8, 0, 1, 6), Op(8, 0, 1, 7),
    Op(8, 0, 1, 14), Op(9, 0, 1, 0), OpNNN(10, 5), OpNNN(11, PROGRAM_START_AT + 6),
    OpKK(12, 1, 3), Op(13, 0, 1, 5), Op(14, 0, 9, 14), Op(14, 0, 10, 1),
    Op(15, 0, 0, 7), Op(15, 0, 0, 10), Op(15, 0, 1, 5), Op(15, 0, 1, 8),
    Op(15, 0, 1, 14), Op(15, 0, 2, 9), Op(15, 0, 3, 3), Op(15, 0, 5, 5),
    Op(15, 0, 6, 5) }

\* programs that draw the glyph of 0, execute one word and clear the screen:
\*   A000, D005, the word, 00E0, 1208
FrameRoms ==
  { OpNNN(10, 0) \o Op(13, 0, 0, 5) \o w \o Op(0, 0, 14, 0)
      \o OpNNN(1, PROGRAM_START_AT + 8) : w \in FrameWords }

LoadFrame == \E rom \in FrameRoms : Load(rom)

\* the host key whose events the frame specification generates
FrameKeys == {"Space"}

PressFrame == \E key \in FrameKeys : KeyPress(key)

ReleaseFrame == \E key \in FrameKeys : KeyRelease(key)

NextFrame == LoadFrame \/ Step \/ PressFrame \/ ReleaseFrame

SpecFrame == Init /\ [][NextFrame]_vars

\* the word w, n times
Repeat(w, n) == [k \in 1..(n * Len(w)) |-> w[((k - 1) % Len(w)) + 1]]

\* programs that add register x to I again and again:
\*   6xvv, AFFF, Fx1E MaxAdds times, then a jump to itself
AddISelectors == {0, 15}

AddIValues == {0, 1, 255}

AddIRoms ==
  { OpKK(6, t[1], t[2]) \o OpNNN(10, 4095) \o Repeat(Op(15, t[1], 1, 14), MaxAdds)
      \o OpNNN(1, PROGRAM_START_AT + 4 + 2 * MaxAdds) :
      t \in AddISelectors \X AddIValues }

LoadAddI == \E rom \in AddIRoms : Load(rom)

NextAddI == LoadAddI \/ Step

SpecAddI == Init /\ [][NextAddI]_vars

\* programs that set register x and query the key it numbers:
\*   6xvv, Ex9E or ExA1, 1204, 1206
QuerySelectors == {0, 15}

QueryValues == {4, 15, 16, 255}

QueryRoms ==
  { OpKK(6, t[1], t[2]) \o Op(14, t[1], t[3][1], t[3][2])
      \o OpNNN(1, PROGRAM_START_AT + 4) \o OpNNN(1, PROGRAM_START_AT + 6) :
      t \in QuerySelectors \X QueryValues \X {<<9, 14>>, <<10, 1>>} }

LoadQuery == \E rom \in QueryRoms : Load(rom)

NextQuery == LoadQuery \/ Step \/ PressFrame \/ ReleaseFrame

SpecQuery == Init /\ [][NextQuery]_vars

(***************************************************************************)
(* Properties.  hist[1] is the state the last step started from and       *)
(* hist[2] the state the step before it started from.                      *)
(***************************************************************************)
Stepped(k) == Len(hist) >= k

\* the instruction the k-th last step executed
InsOf(k) == InstructionFrom(hist[k].word)

\* the k-th last step fetched and decoded an instruction of variant op
Executed(k, op) == Stepped(k) /\ hist[k].word # -1 /\ InsOf(k).op = op

\* C1: decoding is total: no instruction word makes Instruction::from reach
\* its unreachable!() arm, so no step ends in that panic.
C1_DecodeTotal == panic # "unreachable"

\* C2: a key-wait step (Fx0A) with no key pressed leaves pc at the key-wait
\* instruction, re-fetches the same word and leaves the registers alone; with
\* a key pressed it stores the lowest pressed key in register x and leaves
\* pc at the key-wait address + 2.
C2_KeyWait ==
  Executed(1, "LoadKeyPress") =>
    /\ panic = "none"
    /\ hist[1].keys = {} =>
         /\ pc = hist[1].pc
         /\ Fetch(Self) = hist[1].word
         /\ registers = hist[1].registers
    /\ hist[1].keys # {} =>
         /\ pc = hist[1].pc + 2
         /\ registers[InsOf(1).x] \in hist[1].keys
         /\ \A n \in hist[1].keys : registers[InsOf(1).x] <= n
         /\ \A r \in 0..(NumRegisters - 1) :
              r # InsOf(1).x => registers[r] = hist[1].registers[r]

\* C2 witness: the key wait blocked once with register x = 200, then several
\* keys were pressed and the next step stored the lowest of them.
C2_Witness ==
  /\ Executed(2, "LoadKeyPress") /\ Executed(1, "LoadKeyPress")
  /\ hist[2].keys = {}
  /\ hist[1].pc = hist[2].pc
  /\ hist[1].registers[InsOf(1).x] = 200
  /\ hist[1].keys = {4, 8, 15}
  /\ registers[InsOf(1).x] = 4
  /\ pc = hist[1].pc + 2

\* the value the instruction of the last step left in the delay timer and in
\* the sound timer, before the timer block of that step
DelayAfterIns ==
  IF Executed(1, "SetDT") THEN hist[1].registers[InsOf(1).x] ELSE hist[1].register_delay

SoundAfterIns ==
  IF Executed(1, "SetST") THEN hist[1].registers[InsOf(1).x] ELSE hist[1].register_sound

\* C3: a step lowers a timer only if at least TIMER_RATE microseconds (1/60 s)
\* have passed since last_tick, it lowers it by one, and it then sets last_tick
\* to the clock; a step before that leaves timers and last_tick alone; and two
\* steps that lower a timer are at least TIMER_RATE apart on the clock, however
\* many steps are taken in between.
C3_TimerRate ==
  /\ (Stepped(1) /\ panic = "none") =>
       /\ register_delay \in {DelayAfterIns, DelayAfterIns - 1}
       /\ register_sound \in {SoundAfterIns, SoundAfterIns - 1}
       /\ (register_delay # DelayAfterIns \/ register_sound # SoundAfterIns) =>
            /\ hist[1].now - hist[1].last_tick >= TIMER_RATE
            /\ last_tick = hist[1].now
       /\ hist[1].now - hist[1].last_tick < TIMER_RATE =>
            /\ last_tick = hist[1].last_tick
            /\ register_delay = DelayAfterIns
            /\ register_sound = SoundAfterIns
  /\ Len(tick_log) >= 2 => tick_log[1] - tick_log[2] >= TIMER_RATE

\* C3 witness: a timer was lowered, then two steps were taken less than
\* TIMER_RATE after it with a timer still running, and neither lowered it.
C3_Witness ==
  /\ Stepped(2) /\ panic = "none"
  /\ Len(tick_log) >= 1
  /\ hist[2].now - tick_log[1] \in 1..(TIMER_RATE - 1)
  /\ hist[1].now - tick_log[1] \in 1..(TIMER_RATE - 1)
  /\ hist[2].register_delay > 0
  /\ register_delay = hist[2].register_delay
  /\ register_sound = hist[2].register_sound

\* the values of register x and register y of the last step's instruction
\* before that step
Vx == hist[1].registers[InsOf(1).x]

Vy == hist[1].registers[InsOf(1).y]

\* C4 as stated, for every destination selector: after 8xy4 register 15 is 1
\* if Vx + Vy > 255 and 0 otherwise, and register x holds (Vx + Vy) mod 256.
C4_AddCarry_AnyX ==
  Executed(1, "AddCarry") =>
    /\ registers[15] = IF Vx + Vy > 255 THEN 1 ELSE 0
    /\ registers[InsOf(1).x] = (Vx + Vy) % 256

\* C4 amended: for a destination selector x in 0..14 (and any y), after 8xy4
\* register 15 is 1 if Vx + Vy > 255 and 0 otherwise, and register x holds
\* (Vx + Vy) mod 256.
C4_AddCarry ==
  (Executed(1, "AddCarry") /\ InsOf(1).x # 15) =>
    /\ panic = "none"
    /\ registers[15] = IF Vx + Vy > 255 THEN 1 ELSE 0
    /\ registers[InsOf(1).x] = (Vx + Vy) % 256

\* C4 witness: 255 + 3 was added into register 0, with carry
C4_Witness ==
  /\ Executed(1, "AddCarry") /\ InsOf(1).x = 0
  /\ Vx = 255 /\ Vy = 3
  /\ registers[0] = 2 /\ registers[15] = 1

\* C5, for selectors x and y in 0..14: 8xy5 sets register 15 to 1 iff Vx >= Vy
\* and stores (Vx - Vy) mod 256 in register x; 8xy7 sets register 15 to 1 iff
\* Vy >= Vx and stores (Vy - Vx) mod 256 in register x.
C5_SubBorrow ==
  /\ (Executed(1, "SubCarry") /\ InsOf(1).x # 15 /\ InsOf(1).y # 15) =>
       /\ registers[15] = IF Vx >= Vy THEN 1 ELSE 0
       /\ registers[InsOf(1).x] = (Vx - Vy) % 256
  /\ (Executed(1, "SubN") /\ InsOf(1).x # 15 /\ InsOf(1).y # 15) =>
       /\ registers[15] = IF Vy >= Vx THEN 1 ELSE 0
       /\ registers[InsOf(1).x] = (Vy - Vx) % 256

\* C6, for a selector x in 0..14: after 8xyE register 15 is bit 7 of Vx and
\* register x holds (Vx * 2) mod 256.
C6_Shl ==
  (Executed(1, "Shl") /\ InsOf(1).x # 15) =>
    /\ registers[15] = (Vx \div 128) % 2
    /\ registers[InsOf(1).x] = (Vx * 2) % 256

\* C7 as stated, for every destination selector: after 8xy6 register 15 is
\* bit 0 of Vx and register x holds Vx div 2.
C7_Shr_AnyX ==
  Executed(1, "Shr") =>
    /\ registers[15] = Vx % 2
    /\ registers[InsOf(1).x] = Vx \div 2

\* C7 amended: for a destination selector x in 0..14, after 8xy6 register 15
\* is bit 0 of Vx, register x holds Vx div 2, and no other register (register
\* y included) has changed.
C7_Shr ==
  (Executed(1, "Shr") /\ InsOf(1).x # 15) =>
    /\ panic = "none"
    /\ registers[15] = Vx % 2
    /\ registers[InsOf(1).x] = Vx \div 2
    /\ \A r \in 0..(NumRegisters - 1) :
         r \notin {15, InsOf(1).x} => registers[r] = hist[1].registers[r]

\* C7 witness: 3 was shifted right in register 0, shifting out a 1
C7_Witness ==
  /\ Executed(1, "Shr") /\ InsOf(1).x = 0
  /\ Vx = 3
  /\ registers[0] = 1 /\ registers[15] = 1

\* the last two steps executed the same draw instruction to the end, with the
\* same I and the same values in its coordinate registers (the sprite bytes
\* are the same: a draw does not write memory)
DoubleDraw ==
  /\ Executed(2, "Drw") /\ Executed(1, "Drw")
  /\ panic = "none"
  /\ hist[1].word = hist[2].word
  /\ hist[1].register_i = hist[2].register_i
  /\ hist[1].registers[InsOf(1).x] = hist[2].registers[InsOf(1).x]
  /\ hist[1].registers[InsOf(1).y] = hist[2].registers[InsOf(1).y]

\* the sprite the last step drew has a 1 bit
SpriteHasBit ==
  \E r \in 0..(InsOf(1).n - 1) : RamGet(ram, hist[1].register_i + r) # 0

\* bit c (0 = leftmost) of row r of the sprite the last step drew
SpriteBit(r, c) == (RamGet(ram, hist[1].register_i + r) \div Pow2(7 - c)) % 2

\* C8: drawing the same sprite at the same position twice in succession
\* leaves every pixel of the framebuffer as it was before the first draw.
C8_DrawInvolution == DoubleDraw => pixels = hist[2].pixels

\* C9 as stated: when the first of two identical draws left the flag
\* register 0, the second draw leaves it 0.
C9_SecondFlagZero ==
  (DoubleDraw /\ hist[1].registers[15] = 0) => registers[15] = 0

\* C9 amended: when the first of two identical draws left the flag register
\* 0, the second draw leaves it 1 if the sprite has a 1 bit in its n rows and
\* 0 if it has none.
C9_SecondFlag ==
  (DoubleDraw /\ hist[1].registers[15] = 0) =>
    registers[15] = IF SpriteHasBit THEN 1 ELSE 0

\* C9 witness: a sprite with 1 bits was drawn twice on a framebuffer that is
\* not blank, the first draw without collision, the second with one.
C9_Witness ==
  /\ DoubleDraw /\ hist[1].registers[15] = 0
  /\ SpriteHasBit
  /\ <<0, 0>> \in hist[2].pixels
  /\ registers[15] = 1

\* C10: a draw XORs sprite bit (r, c) into pixel ((Vx + c) mod 64,
\* (Vy + r) mod 32) for every r < n and c < 8, Vx and Vy being the values of
\* the coordinate registers before the step, and changes no other pixel; an
\* 8x1 sprite of 1 bits at (60, 0) on a blank framebuffer lights exactly the
\* columns 60..63 and 0..3 of row 0.
C10_DrawWraps ==
  (Executed(1, "Drw") /\ panic = "none") =>
    /\ \A py \in 0..(ScreenHeight - 1) : \A px \in 0..(ScreenWidth - 1) :
         LET c == (px - Vx) % ScreenWidth
             r == (py - Vy) % ScreenHeight
             bit == IF c < 8 /\ r < InsOf(1).n THEN SpriteBit(r, c) ELSE 0
         IN (<<px, py>> \in pixels) <=> ((<<px, py>> \in hist[1].pixels) # (bit = 1))
    /\ ( /\ Vx = 60 /\ Vy = 0 /\ InsOf(1).n = 1
         /\ RamGet(ram, hist[1].register_i) = 255
         /\ hist[1].pixels = {} ) =>
         pixels = {60, 61, 62, 63, 0, 1, 2, 3} \X {0}

\* C11: a BCD store (Fx33) whose three bytes lie in memory writes the hundreds,
\* tens and ones digit of the value v of register x to memory[I], memory[I+1]
\* and memory[I+2]: each is in 0..9 and 100 * h + 10 * t + o = v; I and
\* register x are unchanged; for v = 235 the bytes are 2, 3, 5.
C11_Bcd ==
  (Executed(1, "LoadBCD") /\ hist[1].register_i + 2 < RamSize) =>
    LET v == hist[1].registers[InsOf(1).x]
        I == hist[1].register_i
        h == RamGet(ram, I)
        t == RamGet(ram, I + 1)
        o == RamGet(ram, I + 2)
    IN /\ panic = "none"
       /\ h \in 0..9 /\ t \in 0..9 /\ o \in 0..9
       /\ 100 * h + 10 * t + o = v
       /\ register_i = I
       /\ registers[InsOf(1).x] = v
       /\ v = 235 => (h = 2 /\ t = 3 /\ o = 5)

\* a BCD store of 235 has written 2, 3, 5
C11_Witness ==
  /\ Executed(1, "LoadBCD")
  /\ hist[1].registers[InsOf(1).x] = 235
  /\ RamGet(hist[1].ram, hist[1].register_i) = 0
  /\ RamGet(ram, hist[1].register_i) = 2
  /\ RamGet(ram, hist[1].register_i + 1) = 3
  /\ RamGet(ram, hist[1].register_i + 2) = 5
  /\ panic = "none"

\* the last two steps were the first two of a program 6xkk, 7xjj
SetThenAdd ==
  /\ Executed(2, "Set") /\ Executed(1, "Add")
  /\ InsOf(2).x = InsOf(1).x
  /\ hist[2].pc = PROGRAM_START_AT
  /\ hist[1].pc = PROGRAM_START_AT + 2
  /\ hist[2].word = 256 * RamGet(ram, PROGRAM_START_AT) + RamGet(ram, PROGRAM_START_AT + 1)
  /\ hist[1].word = 256 * RamGet(ram, PROGRAM_START_AT + 2) + RamGet(ram, PROGRAM_START_AT + 3)

\* C12 as stated: two steps of a program 6xkk, 7xjj on a fresh machine yield
\* register x = (kk + jj) mod 256, pc = 0x200 + 4 and the flag register
\* unchanged, for every selector x.
C12_SetAdd_AnyX ==
  SetThenAdd =>
    /\ panic = "none"
    /\ registers[InsOf(1).x] = (InsOf(2).kk + InsOf(1).kk) % 256
    /\ pc = PROGRAM_START_AT + 4
    /\ registers[15] = hist[2].registers[15]

\* C12: each step fetches the big-endian word at memory[pc], memory[pc + 1]
\* and executes one instruction: two steps of a program 6xkk, 7xjj on a fresh
\* machine yield register x = (kk + jj) mod 256 and pc = 0x200 + 4, every
\* other register is unchanged, and so is the flag register when x is not 15;
\* for the program 60 05 70 03 register 0 is 8.
C12_SetAdd ==
  SetThenAdd =>
    /\ panic = "none"
    /\ registers[InsOf(1).x] = (InsOf(2).kk + InsOf(1).kk) % 256
    /\ pc = PROGRAM_START_AT + 4
    /\ \A r \in 0..(NumRegisters - 1) :
         r # InsOf(1).x => registers[r] = hist[2].registers[r]
    /\ (hist[2].word = 24581 /\ hist[1].word = 28675) => registers[0] = 8

\* the program 60 05 70 03 has run its two steps and register 0 is 8
C12_Witness ==
  /\ SetThenAdd
  /\ hist[2].word = 24581 /\ hist[1].word = 28675
  /\ registers[0] = 8
  /\ pc = PROGRAM_START_AT + 4

\* C13: the call stack holds 16 return addresses: a Call with fewer than 16
\* Calls outstanding pushes the address of the following instruction and
\* jumps to nnn without a fault, a Call with 16 outstanding is a fault, and a
\* running machine's stack pointer indexes one of the 16 stack entries.
C13_CallDepth ==
  /\ (Executed(1, "Call") /\ Len(hist[1].calls) < StackSize) =>
       /\ panic = "none"
       /\ pc = InsOf(1).nnn
       /\ sp \in 0..(StackSize - 1)
       /\ stack[sp] = hist[1].pc + 2
  /\ (Executed(1, "Call") /\ Len(hist[1].calls) >= StackSize) => panic # "none"
  /\ (panic = "none" /\ calls # <<>>) => sp \in 0..(StackSize - 1)

\* C14: a Return (00EE) executed with no Call outstanding and stack pointer 0
\* ends the program with a fault: the machine does not go on with a pc read
\* from an unused stack entry or with a wrapped stack pointer.
C14_RetUnderflow ==
  /\ (Executed(1, "Ret") /\ hist[1].calls = <<>> /\ hist[1].sp = 0) => panic # "none"
  /\ panic = "none" => sp # -1

\* the Call that the last step returned from, when it was a Return with a
\* Call outstanding
Matching == hist[1].calls[Len(hist[1].calls)]

\* C19: Call and Return are LIFO and inverse: a Call at address a with fewer
\* than 16 Calls outstanding pushes a + 2 and jumps to nnn; a Return resumes
\* at a + 2 for the latest outstanding Call at a and restores the stack
\* pointer to its value before that Call; the Return of the outermost Call
\* leaves the stack pointer 0.
C19_Lifo ==
  /\ (Executed(1, "Call") /\ Len(hist[1].calls) < StackSize) =>
       /\ panic = "none"
       /\ pc = InsOf(1).nnn
       /\ stack[sp] = hist[1].pc + 2
       /\ Len(calls) = Len(hist[1].calls) + 1
  /\ (Executed(1, "Ret") /\ hist[1].calls # <<>>) =>
       /\ panic = "none"
       /\ pc = Matching.site + 2
       /\ sp = Matching.sp
       /\ Len(calls) = Len(hist[1].calls) - 1
  /\ (Executed(1, "Ret") /\ Len(hist[1].calls) = 1) => sp = 0

\* C15: the program counter of a running machine is even in every reachable
\* state, whatever program runs.
C15_PcEven == panic = "none" => pc % 2 = 0

\* C16: a glyph address step (Fx29) with register x = d <= 15 sets I = 5 * d,
\* where the table loaded at address 0 holds the 5 bytes of the glyph of d;
\* with register x > 15 the step is a fault and I keeps its value.
C16_Glyph ==
  Executed(1, "LoadSprite") =>
    LET d == hist[1].registers[InsOf(1).x] IN
    IF d <= 15
    THEN /\ panic = "none"
         /\ register_i = 5 * d
         /\ \A k \in 0..4 : RamGet(ram, register_i + k) = NUMBERS[5 * d + k + 1]
    ELSE /\ panic # "none"
         /\ register_i = hist[1].register_i

\* a glyph address step with register x = 16 has faulted and left I = 0x123
C16_Witness ==
  /\ Executed(1, "LoadSprite")
  /\ hist[1].registers[InsOf(1).x] = 16
  /\ panic = "explicit"
  /\ register_i = 291

\* the memory addresses the instruction of the last step accesses after its
\* fetch
Operands ==
  LET I == hist[1].register_i IN
  IF hist[1].word = -1 THEN {}
  ELSE CASE InsOf(1).op = "LoadBCD" -> I..(I + 2)
         [] InsOf(1).op \in {"LoadAllI", "SetAllI"} -> I..(I + InsOf(1).x)
         [] InsOf(1).op = "Drw" -> I..(I + InsOf(1).n - 1)
         [] OTHER -> {}

\* the memory addresses the last step accesses
Touched == {hist[1].pc, hist[1].pc + 1} \cup Operands

\* C17: a step whose fetch, BCD store, bulk register store or load, or sprite
\* read touches an address beyond the end of memory ends in a fault; the
\* bytes it changed are at addresses of the instruction inside memory, the
\* registers it changed were loaded from such addresses, and it drew nothing.
C17_OutOfBounds ==
  (Stepped(1) /\ \E a \in Touched : a >= RamSize) =>
    /\ panic = "index"
    /\ DOMAIN ram \subseteq 0..(RamSize - 1)
    /\ \A a \in DOMAIN ram \cup DOMAIN hist[1].ram :
         RamGet(ram, a) # RamGet(hist[1].ram, a) =>
           /\ a \in Operands
           /\ InsOf(1).op = "LoadBCD" \/ RamGet(ram, a) = hist[1].registers[a - hist[1].register_i]
    /\ \A r \in 0..(NumRegisters - 2) :
         registers[r] # hist[1].registers[r] =>
           /\ InsOf(1).op = "SetAllI"
           /\ hist[1].register_i + r < RamSize
           /\ registers[r] = RamGet(ram, hist[1].register_i + r)
    /\ registers[15] # hist[1].registers[15] => (InsOf(1).op = "Drw" /\ registers[15] = 0)
    /\ pixels = hist[1].pixels
    /\ register_i = hist[1].register_i

\* a BCD store of 235 at I = 4096 has written 2 and 3 to the last two bytes
\* of memory and faulted at the third
C17_Witness ==
  /\ Executed(1, "LoadBCD")
  /\ hist[1].register_i = 4096
  /\ RamGet(ram, 4096) = 2 /\ RamGet(ram, 4097) = 3
  /\ panic = "index"

\* the variant of the instruction the next step executes
StepOp == IF Fetch(Self) = -1 THEN "none" ELSE InstructionFrom(Fetch(Self)).op

\* C18: no step changes the key states; a step changes a pixel only if it
\* executes the draw (Dxyn) or the clear-screen (00E0) instruction, and after
\* a clear-screen step every one of the 64x32 pixels is 0.
C18_Frame ==
  [][Step =>
       /\ keys' = keys
       /\ StepOp \notin {"Drw", "Cls"} => pixels' = pixels
       /\ StepOp = "Cls" =>
            \A x \in 0..(ScreenWidth - 1) : \A y \in 0..(ScreenHeight - 1) :
              ScreenGet(pixels', x, y) = 0]_vars

\* a clear-screen step has cleared a screen with lit pixels while keys were
\* pressed
C18_Witness ==
  /\ Executed(1, "Cls")
  /\ hist[1].pixels # {}
  /\ pixels = {}
  /\ hist[1].keys # {}
  /\ keys = hist[1].keys
  /\ panic = "none"

\* the pixels the last step switched from 1 to 0
SwitchedOff == hist[1].pixels \ pixels

\* C20: after a draw step the flag register is 1 if the draw switched at least
\* one pixel from 1 to 0 and 0 otherwise, whatever it held before the draw and
\* whichever row the collision was in.
C20_Collision ==
  (Executed(1, "Drw") /\ panic = "none") =>
    registers[15] = IF SwitchedOff # {} THEN 1 ELSE 0

\* a 15-row draw has collided in its first row only, lit pixels in later rows
\* and left the flag 1
C20_Witness ==
  /\ Executed(1, "Drw") /\ panic = "none"
  /\ InsOf(1).n = 15
  /\ SwitchedOff # {}
  /\ \A p \in SwitchedOff : p[2] = 0
  /\ \E p \in pixels \ hist[1].pixels : p[2] = 14
  /\ registers[15] = 1

\* the tick was due in the last step
TickDue == hist[1].now - hist[1].last_tick >= TIMER_RATE

\* C21: in a step at which the tick is due each timer ends one below its
\* value after the instruction if that is nonzero and at 0 if it is zero, one
\* independently of the other; both timers are in 0..255 in every state; and
\* a timer that is 0 before a step is 0 after it unless the step is the
\* timer-write instruction (Fx15 for delay, Fx18 for sound).
C21_Saturating ==
  /\ register_delay \in 0..255
  /\ register_sound \in 0..255
  /\ (Stepped(1) /\ panic = "none" /\ TickDue) =>
       /\ register_delay = IF DelayAfterIns > 0 THEN DelayAfterIns - 1 ELSE 0
       /\ register_sound = IF SoundAfterIns > 0 THEN SoundAfterIns - 1 ELSE 0
  /\ (Stepped(1) /\ hist[1].register_delay = 0 /\ ~Executed(1, "SetDT")) =>
       register_delay = 0
  /\ (Stepped(1) /\ hist[1].register_sound = 0 /\ ~Executed(1, "SetST")) =>
       register_sound = 0

\* a due tick has lowered a running delay timer and left the sound timer,
\* which was 0, at 0
C21_Witness ==
  /\ Stepped(1) /\ panic = "none" /\ TickDue
  /\ ~Executed(1, "SetDT")
  /\ hist[1].register_delay > 0
  /\ register_delay = hist[1].register_delay - 1
  /\ hist[1].register_sound = 0
  /\ register_sound = 0

\* C22: an add-to-address-register step (Fx1E) never faults, whatever I and
\* register x hold: it stores (I + Vx) mod 65536 in I and leaves every
\* register, the flag register included, unchanged.
C22_AddI ==
  Executed(1, "AddI") =>
    /\ panic = "none"
    /\ register_i = (hist[1].register_i + hist[1].registers[InsOf(1).x]) % 65536
    /\ registers = hist[1].registers

\* the key the last step's instruction asked about is pressed
Pressed == hist[1].registers[InsOf(1).x] \in hist[1].keys

\* C23: a key query step never faults, whatever register x holds: Ex9E leaves
\* pc 4 after the instruction if the key numbered Vx is pressed and 2 after it
\* if not, ExA1 the other way round, and neither changes a register.
C23_KeyQuery ==
  /\ Executed(1, "SkipPressed") =>
       /\ panic = "none"
       /\ pc = hist[1].pc + (IF Pressed THEN 4 ELSE 2)
       /\ registers = hist[1].registers
  /\ Executed(1, "SkipNPressed") =>
       /\ panic = "none"
       /\ pc = hist[1].pc + (IF Pressed THEN 2 ELSE 4)
       /\ registers = hist[1].registers

\* the flag of the last step's instruction, computed from the values its
\* operand registers held before the step
FlagOf ==
  CASE InsOf(1).op = "AddCarry" -> IF Vx + Vy > 255 THEN 1 ELSE 0
    [] InsOf(1).op = "SubCarry" -> IF Vx >= Vy THEN 1 ELSE 0
    [] InsOf(1).op = "SubN" -> IF Vy >= Vx THEN 1 ELSE 0
    [] InsOf(1).op = "Shr" -> Vx % 2
    [] InsOf(1).op = "Shl" -> (Vx \div 128) % 2

\* the last step executed a flag-producing instruction with register 15 as
\* an operand, on values for which the flag of a subtraction with equal
\* operands (C5) and of a left shift of a value above 127 (C6) play no part
FlagOperand15 ==
  /\ Stepped(1) /\ hist[1].word # -1
  /\ InsOf(1).op \in {"AddCarry", "SubCarry", "SubN", "Shr", "Shl"}
  /\ InsOf(1).x = 15 \/ InsOf(1).y = 15
  /\ InsOf(1).op \in {"SubCarry", "SubN"} => Vx # Vy
  /\ InsOf(1).op = "Shl" => Vx < 128

\* C24: after add-with-carry, either subtract or either shift with the
\* selector x or y equal to 15, register 15 holds the carry, not-borrow or
\* shifted-out bit of the values the operand registers held before the step.
C24_FlagWins == FlagOperand15 => registers[15] = FlagOf

\* the pixels the last step changed
Changed == (pixels \ hist[1].pixels) \cup (hist[1].pixels \ pixels)

\* the pixels under the 1 bits of the sprite of the last step when all its
\* rows and columns are placed from the base (bx, by)
Covered(bx, by) ==
  { <<(bx + rc[2]) % ScreenWidth, (by + rc[1]) % ScreenHeight>> :
      rc \in { q \in (0..(InsOf(1).n - 1)) \X (0..7) : SpriteBit(q[1], q[2]) = 1 } }

\* C25: a draw places all its n rows and 8 columns from the base coordinates
\* its registers x and y held before the step, for every selector x and y,
\* 15 included: the pixels it changes are those under the sprite's 1 bits
\* placed from (Vx, Vy).
C25_DrawBase ==
  (Executed(1, "Drw") /\ panic = "none") => Changed = Covered(Vx, Vy)

====
